---- MODULE Spec2Model ----
(***************************************************************************)
(* A model of src/src/Publisher.ts: the tree builder                       *)
(* (createFolderStructure), the remote page reconciler                     *)
(* (createFileStructureInConfluence / ensurePageExists), the link          *)
(* resolver and the per-page publish tasks (publishFile /                  *)
(* updatePageContent / uploadFiles) of Publisher.doPublish.                *)
(*                                                                         *)
(* Strings.  A string is represented by what path.sep-splitting and        *)
(* "."-splitting make of it: a non-empty sequence of components, each a    *)
(* non-empty sequence of pieces.  "/r/a.md" is                             *)
(* << <<"">>, <<"r">>, <<"a","md">> >>, the empty string is << <<"">> >>.  *)
(* This is a bijection between strings and such sequences, so string       *)
(* equality is equality of the representations, and split, join,           *)
(* path.parse(..).name and the template `${name}.md` are computed on it.   *)
(***************************************************************************)
EXTENDS Integers, Sequences, FiniteSets, TLC

VARIABLES
    markdownFiles,  \* the adaptor's documents (MarkdownFile list), each with its stored pageId
    folderTree,     \* what createFolderStructure made of them: pending, a tree, or an error
    pages,          \* the remote wiki: page id -> page
    attachments,    \* the remote wiki: page id -> attachments of the page
    run,            \* the doPublish call: status, error, outcome, publish filter
    nodes,          \* the createFileStructureInConfluence calls, one per tree node (pre-order)
    tasks,          \* the publishFile calls, one per binding
    calls           \* every remote or adaptor call the run has issued

vars == <<markdownFiles, folderTree, pages, attachments, run, nodes, tasks, calls>>

(***************************************************************************)
(* String helpers                                                          *)
(***************************************************************************)
EmptyString == << <<"">> >>

\* a separator-free, dot-free string such as "A"
S(x) == << <<x>> >>

\* `${x}.md` for such a string: "a.md"
Md(x) == << <<x, "md">> >>

\* String.prototype.split(path.sep): the components, each a string again
pathSplit(str) == [i \in DOMAIN str |-> <<str[i]>>]

\* Array.prototype.join(path.sep) of separator-free strings; [] joins to ""
pathJoin(parts) ==
    IF parts = <<>> THEN EmptyString ELSE [i \in DOMAIN parts |-> parts[i][1]]

\* the template literal `${str}.md`
withMdSuffix(str) == [str EXCEPT ![Len(str)] = Append(@, "md")]

\* path.parse(name).name: the last component without its extension
\* (a leading-dot name such as ".md" has no extension)
parseName(str) ==
    LET base == str[Len(str)]
    IN  IF Len(base) = 1 \/ (Len(base) = 2 /\ base[1] = "")
        THEN <<base>>
        ELSE <<SubSeq(base, 1, Len(base) - 1)>>

\* path.basename
baseName(str) == <<str[Len(str)]>>

RECURSIVE dropEmpty(_)
dropEmpty(comps) ==
    IF comps = <<>> THEN <<>>
    ELSE IF Head(comps) = <<"">> THEN dropEmpty(Tail(comps))
         ELSE <<Head(comps)>> \o dropEmpty(Tail(comps))

\* path.join(a, b): concatenation, normalised (empty components collapse,
\* a leading separator of a is kept)
pathJoin2(a, b) ==
    LET lead == IF Len(a) > 1 /\ a[1] = <<"">> THEN << <<"">> >> ELSE <<>>
        rest == dropEmpty(a \o b)
    IN  IF lead \o rest = <<>> THEN S(".") ELSE lead \o rest

\* path.relative(from, to) for a `from` that is a component prefix of `to`
\* (findCommonPath's result always is): the remaining components, "" if none
pathRelative(from, to) ==
    IF Len(to) > Len(from) THEN SubSeq(to, Len(from) + 1, Len(to)) ELSE EmptyString

(***************************************************************************)
(* Tree Builder                                                            *)
(***************************************************************************)
NoFile == [absent |-> TRUE]
NoPageId == ""

\* findCommonPath: the first path's parts, cut at the first index where a
\* later path differs
RECURSIVE firstMismatch(_, _, _)
firstMismatch(commonPathParts, pathParts, i) ==
    IF i > Len(commonPathParts) THEN 0
    ELSE IF i > Len(pathParts) \/ pathParts[i] # commonPathParts[i] THEN i
         ELSE firstMismatch(commonPathParts, pathParts, i + 1)

RECURSIVE commonParts(_, _)
commonParts(commonPathParts, rest) ==
    IF rest = <<>> THEN commonPathParts
    ELSE LET i == firstMismatch(commonPathParts, pathSplit(Head(rest)), 1)
         IN  commonParts(IF i = 0 THEN commonPathParts
                         ELSE SubSeq(commonPathParts, 1, i - 1),
                         Tail(rest))

findCommonPath(paths) ==
    pathJoin(commonParts(pathSplit(Head(paths)), Tail(paths)))

createTreeNode(name) == [name |-> name, children |-> <<>>, file |-> NoFile]

\* mdToADFConverter.convertMDtoADF: the converter is an external
\* collaborator; the AdfFile carries the MarkdownFile's fields
convertMDtoADF(file) == file

\* index of the first TRUE of a sequence of test results, 0 if none
FirstIndex(hits) ==
    IF \E i \in DOMAIN hits : hits[i]
    THEN CHOOSE i \in DOMAIN hits : hits[i] /\ \A j \in 1..(i - 1) : ~hits[j]
    ELSE 0

RECURSIVE concatAll(_)
concatAll(seqs) == IF seqs = <<>> THEN <<>> ELSE Head(seqs) \o concatAll(Tail(seqs))

RemoveAt(seq, i) == SubSeq(seq, 1, i - 1) \o SubSeq(seq, i + 1, Len(seq))

\* addFileToTree: the node with the file inserted and the grown fileNames
\* set, or ok = FALSE for the thrown "not unique across all folders" error
RECURSIVE addFileToTree(_, _, _, _)
addFileToTree(treeNode, file, relativePath, fileNames) ==
    LET parts == pathSplit(relativePath)
        folderName == Head(parts)
        remainingPath == Tail(parts)
    IN  IF remainingPath = <<>>
        THEN IF file.fileName \in fileNames
             THEN [ok |-> FALSE, node |-> treeNode, fileNames |-> fileNames]
             ELSE [ok |-> TRUE,
                   node |-> [treeNode EXCEPT !.children =
                                Append(@, [createTreeNode(folderName)
                                             EXCEPT !.file = convertMDtoADF(file)])],
                   fileNames |-> fileNames \cup {file.fileName}]
        ELSE LET hasName(node) == node.name = folderName
                 found == FirstIndex([k \in DOMAIN treeNode.children |-> hasName(treeNode.children[k])])
                 children == IF found = 0
                             THEN Append(treeNode.children, createTreeNode(folderName))
                             ELSE treeNode.children
                 at == IF found = 0 THEN Len(children) ELSE found
                 sub == addFileToTree(children[at], file,
                                      pathJoin(remainingPath), fileNames)
             IN  [ok |-> sub.ok,
                  node |-> [treeNode EXCEPT !.children =
                                [children EXCEPT ![at] = sub.node]],
                  fileNames |-> sub.fileNames]

\* markdownFiles.forEach(addFileToTree ...): stops at the first throw
RECURSIVE addAll(_, _, _, _)
addAll(acc, files, i, commonPath) ==
    IF i > Len(files) \/ ~acc.ok THEN acc
    ELSE addAll(addFileToTree(acc.node, files[i],
                              pathRelative(commonPath, files[i].absoluteFilePath),
                              acc.fileNames),
                files, i + 1, commonPath)

\* FolderFile.json, the body of a folder's placeholder page
FolderFile == <<[type |-> "text", text |-> S("folder"), marks |-> <<>>]>>

\* the placeholder document processNode gives a folder without an index file
folderFile(node, commonPath) ==
    [ folderName |-> node.name,
      absoluteFilePath |-> pathJoin2(commonPath, node.name),
      fileName |-> withMdSuffix(node.name),
      contents |-> FolderFile,
      pageTitle |-> node.name,
      tags |-> <<>>,
      pageId |-> NoPageId,
      dontChangeParentPageId |-> FALSE,
      spaceKey |-> "" ]

RECURSIVE processNode(_, _)
processNode(node, commonPath) ==
    LET isIndex(child) == parseName(child.name) = node.name
        indexFile == FirstIndex([k \in DOMAIN node.children |-> isIndex(node.children[k])])
        withFile ==
            IF node.file # NoFile THEN node
            ELSE IF indexFile # 0
                 THEN [node EXCEPT !.file = node.children[indexFile].file,
                                   !.children = RemoveAt(@, indexFile)]
                 ELSE [node EXCEPT !.file = folderFile(node, commonPath)]
    IN  [withFile EXCEPT !.children =
            [i \in DOMAIN @ |-> processNode(@[i], commonPath)]]

\* createFolderStructure: [ok |-> TRUE, tree |-> rootNode] or the thrown error
createFolderStructure(files) ==
    LET commonPath == findCommonPath([i \in DOMAIN files |-> files[i].absoluteFilePath])
        rootNode == createTreeNode(commonPath)
        added == addAll([ok |-> TRUE, node |-> rootNode, fileNames |-> {}],
                        files, 1, commonPath)
    IN  IF added.ok
        THEN [ok |-> TRUE, tree |-> processNode(added.node, commonPath)]
        ELSE [ok |-> FALSE, tree |-> rootNode]

(***************************************************************************)
(* The remote wiki (the ConfluenceClient's far end) and the adaptor        *)
(***************************************************************************)
TopPageId == "top"          \* settings.confluenceParentId
SpaceKey == "SP"            \* the space of the top page
BaseUrl == "https://wiki"   \* settings.confluenceBaseUrl

\* ids the remote gives the pages it creates, in this order
NewPageIds == <<"n1", "n2", "n3">>
PageIds == {"top", "out", "in"} \cup {NewPageIds[k] : k \in DOMAIN NewPageIds}

NoPage ==
    [ exists |-> FALSE, title |-> EmptyString, parent |-> "", version |-> 0,
      body |-> <<>>, labels |-> {} ]

\* the ancestor chain the remote reports for a page
RECURSIVE ancestorsOf(_, _, _)
ancestorsOf(pgs, id, fuel) ==
    IF fuel = 0 \/ pgs[id].parent = "" THEN {}
    ELSE {pgs[id].parent} \cup ancestorsOf(pgs, pgs[id].parent, fuel - 1)

ancestors(pgs, id) == ancestorsOf(pgs, id, Cardinality(PageIds))

\* content.getContent({type: "page", spaceKey, title}): titles are unique
\* within a space, so there is at most one result
titleSearch(pgs, title) == {id \in PageIds : pgs[id].exists /\ pgs[id].title = title}

\* JSON.stringify of a document: an injective serialisation; "" is <<>>
JSONstringify(adf) == <<adf>>

blankPageAdf ==
    JSONstringify(<<[type |-> "text", text |-> S("Page not published yet"), marks |-> <<>>]>>)

\* content.createContent: the remote refuses a title the space already has
\* and has only the ids of NewPageIds to give
freshIds(pgs) == {k \in DOMAIN NewPageIds : ~pgs[NewPageIds[k]].exists}

canCreate(pgs, title) == titleSearch(pgs, title) = {} /\ freshIds(pgs) # {}

newPageId(pgs) == NewPageIds[CHOOSE k \in freshIds(pgs) : \A m \in freshIds(pgs) : k <= m]

createdPage(request) ==
    [ exists |-> TRUE, title |-> request.title, parent |-> request.ancestors,
      version |-> 1, body |-> request.body, labels |-> {} ]

\* content.updateContent: the remote takes version current + 1 only, keeps
\* titles unique and refuses to put a page under itself or its descendants
canUpdate(pgs, request) ==
    /\ pgs[request.id].exists
    /\ request.version = pgs[request.id].version + 1
    /\ titleSearch(pgs, request.title) \subseteq {request.id}
    /\ request.ancestors # "" =>
          /\ request.ancestors # request.id
          /\ request.id \notin ancestors(pgs, request.ancestors)

updatedPage(page, request) ==
    [ page EXCEPT !.title = request.title,
                  !.version = request.version,
                  !.body = request.body,
                  !.parent = IF request.ancestors # "" THEN request.ancestors ELSE @ ]

\* adaptor.updateMarkdownPageId(absoluteFilePath, id): the stored id of the
\* document with that path (a folder's placeholder has no source document)
storePageId(files, absoluteFilePath, id) ==
    [k \in DOMAIN files |->
        IF files[k].absoluteFilePath = absoluteFilePath
        THEN [files[k] EXCEPT !.pageId = id] ELSE files[k]]

\* what a call may answer: "ok", or "error" while the run has faults left
Outcomes(r) == IF r.faults > 0 THEN {"ok", "error"} ELSE {"ok"}

spend(r, outcome) == IF outcome = "ok" THEN r ELSE [r EXCEPT !.faults = @ - 1]

Call(op, page, i) == [op |-> op, page |-> page, node |-> i]

(***************************************************************************)
(* Remote Page Reconciler                                                  *)
(***************************************************************************)
OutsideTreeError == "is trying to overwrite a page outside the page tree from the selected top page"

RECURSIVE treeSize(_)
RECURSIVE sizes(_, _)
sizes(children, k) ==
    IF k = 0 THEN 0 ELSE treeSize(children[k]) + sizes(children, k - 1)

treeSize(node) == 1 + sizes(node.children, Len(node.children))

NoDetails == [id |-> "", version |-> 0, existingAdf |-> <<>>, ancestors |-> {}]

\* one createFileStructureInConfluence call per tree node, in pre-order:
\* call `base` is the node's, `parent` the call that will start it
RECURSIVE treeCalls(_, _, _)
treeCalls(node, parent, base) ==
    << [ file |-> node.file, parent |-> parent, pc |-> "notStarted",
         error |-> "", origin |-> "", currentPage |-> NoDetails,
         version |-> 0, existingAdf |-> <<>> ] >>
    \o concatAll([k \in DOMAIN node.children |->
                    treeCalls(node.children[k], base,
                              base + 1 + sizes(node.children, k - 1))])

\* where a createFileStructureInConfluence(child, .., createPage = true) call
\* first suspends: at ensurePageExists' fetch by id or its title search; a
\* node without a file throws at once
startCall(node) ==
    IF node.file = NoFile THEN [node EXCEPT !.pc = "failed", !.error = "Missing file on node"]
    ELSE IF node.file.pageId # NoPageId THEN [node EXCEPT !.pc = "getContentById"]
    ELSE [node EXCEPT !.pc = "getContent"]

\* the node takes the page's identity and every call not yet started is
\* started, whatever its parent
resolveNodeStartAll(ns, i, details, spaceKey) ==
    [j \in DOMAIN ns |->
        IF j = i
        THEN [ns[j] EXCEPT !.file.pageId = details.id,
                           !.file.spaceKey = spaceKey,
                           !.version = details.version,
                           !.existingAdf = details.existingAdf,
                           !.pc = "resolved"]
        ELSE IF ns[j].pc = "notStarted" THEN startCall(ns[j]) ELSE ns[j]]

\* lines 227-254: the node takes the page's identity and its children's
\* calls are started
resolveNode(ns, i, details, spaceKey) ==
    [j \in DOMAIN ns |->
        IF j = i
        THEN [ns[j] EXCEPT !.file.pageId = details.id,
                           !.file.spaceKey = spaceKey,
                           !.version = details.version,
                           !.existingAdf = details.existingAdf,
                           !.pc = "resolved"]
        ELSE IF ns[j].parent = i THEN startCall(ns[j]) ELSE ns[j]]

failNode(ns, i, msg) == [ns EXCEPT ![i].pc = "failed", ![i].error = msg]

\* the rejection is swallowed
rejectRunIgnored(r, msg) == r

\* a rejected createFileStructureInConfluence call rejects every Promise.all
\* above it, and with them doPublish; only the first rejection is seen
rejectRun(r, msg) ==
    IF r.status = "reconciling" THEN [r EXCEPT !.status = "failed", !.error = msg] ELSE r

\* the first error among the calls that have thrown, if any
thrown(ns) == {j \in DOMAIN ns : ns[j].pc = "failed"}

settleRun(r, ns) ==
    IF thrown(ns) # {}
    THEN rejectRun(r, ns[CHOOSE j \in thrown(ns) : TRUE].error)
    ELSE r

isInPageTreeUnchecked(pageAncestors, topPageId) == TRUE

\* line 310-314: currentPage.ancestors?.some(ancestor => ancestor.id == topPageId)
isInPageTree(pageAncestors, topPageId) == topPageId \in pageAncestors


(***************************************************************************)
(* Documents (ADF).  A document body is the list of its nodes:             *)
(*   text       [type, text, marks]   marks: <<[type |-> "link", href]>>   *)
(*   media      [type, attrs]         attrs: [type |-> "file", url]        *)
(*   codeBlock  [type, language, text]   text "" when the block is empty   *)
(* A wikilink href is [scheme, pathname, hash] as new URL() parses it.     *)
(***************************************************************************)
NoHash == <<"", "">>

\* SparkMD5: a digest, taken to be free of collisions
md5(x) == <<"md5", x>>

\* file names and urls: <<prefix, digest, rest>>
Url(name) == <<"file://", NoHash, name>>

Text(str) == [type |-> "text", text |-> str, marks |-> <<>>]

Link(str, scheme, pathname, hash) ==
    [ type |-> "text", text |-> str,
      marks |-> <<[type |-> "link",
                   href |-> [scheme |-> scheme, pathname |-> pathname, hash |-> hash]]>> ]

Media(name) == [type |-> "media", attrs |-> [type |-> "file", url |-> Url(name)]]

Mermaid(text) == [type |-> "codeBlock", language |-> "mermaid", text |-> text]

(***************************************************************************)
(* Link Resolver (doPublish, lines 123-171)                                *)
(***************************************************************************)
\* fileToPageIdMap[fileName]: the file of the last binding with that name
RECURSIVE fileToPageIdMap(_, _)
fileToPageIdMap(ns, j) ==
    IF j < 2 THEN <<>>
    ELSE LET rest == fileToPageIdMap(ns, j - 1)
         IN  [name \in DOMAIN rest \cup {ns[j].file.fileName} |->
                 IF name = ns[j].file.fileName THEN ns[j].file ELSE rest[name]]

confluenceUrl(linkPage, hash) ==
    [ scheme |-> "https", base |-> BaseUrl, spaceKey |-> linkPage.spaceKey,
      pageId |-> linkPage.pageId, hash |-> hash ]

resolveLinkKeep(node, map) == node

\* the text visitor of lines 135-169
resolveLink(node, map) ==
    IF node.type = "text" /\ node.marks # <<>> /\ node.marks[1].type = "link"
       /\ node.marks[1].href.scheme = "wikilink"
    THEN LET wikilinkUrl == node.marks[1].href
             pagename == withMdSuffix(wikilinkUrl.pathname)
         IN  IF pagename \in DOMAIN map
             THEN IF node.text = wikilinkUrl.pathname
                  THEN [type |-> "inlineCard",
                        attrs |-> [url |-> confluenceUrl(map[pagename], wikilinkUrl.hash)]]
                  ELSE [node EXCEPT !.marks[1].href =
                            confluenceUrl(map[pagename], wikilinkUrl.hash)]
             ELSE [node EXCEPT !.marks = Tail(@)]
    ELSE node

resolveLinks(contents, map) == [k \in DOMAIN contents |-> resolveLink(contents[k], map)]

(***************************************************************************)
(* Media/Diagram Upload Pipeline and Page Content Synchronizer             *)
(***************************************************************************)
MissingChart == "flowchart LR id1[Missing Chart]"

getMermaidFileName(mermaidContent) ==
    LET mermaidText == IF mermaidContent = "" THEN MissingChart ELSE mermaidContent
    IN  [ uploadFilename |-> <<"RenderedMermaidChart-", md5(mermaidText), ".png">>,
          mermaidText |-> mermaidText ]

isFileMedia(node) == node.type = "media" /\ node.attrs.type = "file"
isMermaid(node) == node.type = "codeBlock" /\ node.language = "mermaid"

\* new Set(strings), in insertion order
RECURSIVE distinct(_)
distinct(seq) ==
    IF seq = <<>> THEN <<>>
    ELSE LET init == distinct(SubSeq(seq, 1, Len(seq) - 1))
             last == seq[Len(seq)]
         IN  IF \E k \in DOMAIN init : init[k] = last THEN init ELSE Append(init, last)

\* lines 504-514: new Set(mermaidNodes.map(node => ({name, data}))): the
\* elements are fresh objects, no two of them the same, so the Set keeps one
\* per diagram block
mermaidNodesToUpload(adr) ==
    LET mermaidNodes == SelectSeq(adr, isMermaid)
    IN  [k \in DOMAIN mermaidNodes |->
            LET mermaidDetails == getMermaidFileName(mermaidNodes[k].text)
            IN  [name |-> mermaidDetails.uploadFilename,
                 data |-> mermaidDetails.mermaidText]]

\* lines 540-542: new Set(mediaNodes.map(node => node.attrs.url))
imagesToUpload(adr) ==
    LET mediaNodes == SelectSeq(adr, isFileMedia)
    IN  distinct([k \in DOMAIN mediaNodes |-> mediaNodes[k].attrs.url])

\* the renderer's image of a diagram text
chartBytes(data) ==
    CASE data = "g1" -> "png-g1"
      [] data = "g2" -> "png-g2"
      [] OTHER -> "png-missing"

\* mermaidRenderer.captureMermaidCharts: one (name, image) per chart given
captureCharts(charts) ==
    [k \in DOMAIN charts |-> [name |-> charts[k].name, bytes |-> chartBytes(charts[k].data)]]

\* adaptor.readBinary(fileNameToUpload, pageFilePath): the binaries of the vault
NoBinary == [missing |-> TRUE]

vaultBinary(fileNameToUpload) ==
    CASE fileNameToUpload = "logo.png" ->
            [filePath |-> "img/logo.png", filename |-> "logo.png", contents |-> "bytes1"]
      [] fileNameToUpload = "old/logo.png" ->
            [filePath |-> "old/logo.png", filename |-> "logo.png", contents |-> "bytes1"]
      [] fileNameToUpload = "photo.png" ->
            [filePath |-> "img/photo.png", filename |-> "photo.png", contents |-> "bytes2"]
      [] OTHER -> NoBinary

uploadFilenameNoPath(testing) == <<"", NoHash, testing.filename>>

\* line 695-696: `${pathMd5}-${testing.filename}`
uploadFilename(testing) == <<"", md5(testing.filePath), testing.filename>>

\* contentAttachments.getAttachments and the reduce of lines 526-538
collectionOf(pageId) == <<"contentId-", pageId>>

currentAttachmentsOf(remote, pageId) ==
    [title \in DOMAIN remote |->
        [ filehash |-> remote[title].comment,
          attachmentId |-> remote[title].fileId,
          collectionName |-> collectionOf(pageId) ]]

attachmentNamed(currentAttachments, name, currentFileMd5) ==
    name \in DOMAIN currentAttachments

\* lines 643-646 and 698-701
attachmentIsCurrent(currentAttachments, name, currentFileMd5) ==
    /\ name \in DOMAIN currentAttachments
    /\ currentAttachments[name].filehash = currentFileMd5

\* contentAttachments.createOrUpdateAttachments: the attachment of that
\* title is created or replaced; each upload gets a file id of its own
uploaded(remote, filename, comment) ==
    LET n == IF filename \in DOMAIN remote THEN remote[filename].fileId.upload + 1 ELSE 1
        entry == [comment |-> comment, fileId |-> [content |-> comment, upload |-> n]]
    IN  [title \in DOMAIN remote \cup {filename} |->
            IF title = filename THEN entry ELSE remote[title]]

put(map, key, value) ==
    [x \in DOMAIN map \cup {key} |-> IF x = key THEN value ELSE map[x]]

NullImage == [null |-> TRUE]

\* the media and codeBlock visitors of lines 576-626
rewriteNode(node, imageMap) ==
    IF isFileMedia(node) /\ "url" \in DOMAIN node.attrs
    THEN IF node.attrs.url \in DOMAIN imageMap /\ imageMap[node.attrs.url] # NullImage
         THEN [node EXCEPT !.attrs =
                  [type |-> "file",
                   collection |-> imageMap[node.attrs.url].collection,
                   id |-> imageMap[node.attrs.url].id]]
         ELSE node
    ELSE IF isMermaid(node) /\ node.text # ""
    THEN LET mermaidFilename == getMermaidFileName(node.text).uploadFilename
         IN  IF mermaidFilename \in DOMAIN imageMap /\ imageMap[mermaidFilename] # NullImage
             THEN [type |-> "mediaSingle", layout |-> "center",
                   content |-> <<[type |-> "media",
                                  attrs |-> [type |-> "file",
                                             collection |-> imageMap[mermaidFilename].collection,
                                             id |-> imageMap[mermaidFilename].id]]>>]
             ELSE node
    ELSE node

afterAdf(adr, imageMap) == [k \in DOMAIN adr |-> rewriteNode(adr[k], imageMap)]

bodyNeverEqual(currentContents, adr) == FALSE

\* line 419: currentContents === adr
bodyUnchanged(currentContents, adr) == currentContents = adr

NoTask ==
    [ pc |-> "none", successfulUpload |-> FALSE, reason |-> "",
      charts |-> <<>>, mermaidChartsAsImages |-> <<>>, imagesToUpload |-> <<>>,
      image |-> 1, chart |-> 1, testing |-> NoBinary,
      currentAttachments |-> <<>>, imageMap |-> <<>>,
      adr |-> <<>>, compared |-> FALSE,
      currentLabels |-> {}, toRemove |-> {} ]

\* what the run leaves for the next one to be compared with
summary(r, pgs, cs) ==
    [ returned |-> r.status = "returned",
      failedFiles |-> r.failedFiles,
      versions |-> [id \in PageIds |-> pgs[id].version],
      calls |-> cs ]

\* no call of an earlier run is still in flight
quiescent ==
    /\ \A j \in DOMAIN nodes : nodes[j].pc \in {"notStarted", "resolved", "failed"}
    /\ \A j \in DOMAIN tasks : tasks[j].pc \in {"none", "done"}

\* doPublish, lines 101-120: fetch the top page, list the documents, build
\* the tree, bind the root node to the top page (createPage = false) and
\* start the calls of its children
doPublish ==
    /\ run.status \in {"idle", "returned", "failed"}
    /\ run.runsLeft > 0
    /\ quiescent
    /\ \E outcome \in Outcomes(run) \cup (IF run.faults > 0 THEN {"nospace"} ELSE {}) :
        LET r == [spend(run, outcome) EXCEPT
                    !.runsLeft = @ - 1, !.n = @ + 1,
                    !.status = "reconciling", !.error = "",
                    !.successfulUploads = 0, !.failedFiles = <<>>,
                    !.prev = summary(run, pages, calls)]
            built == createFolderStructure(markdownFiles)
            ns == treeCalls(built.tree, 0, 1)
            parentPage == [id |-> TopPageId, version |-> 0, existingAdf |-> <<>>]
        IN  /\ calls' = {Call("getContentById", TopPageId, 0)}
            /\ IF outcome = "error"
               THEN /\ run' = rejectRun(r, "request failed")
                    /\ nodes' = <<>> /\ folderTree' = [state |-> "pending"]
               ELSE IF outcome = "nospace"
               THEN /\ run' = rejectRun(r, "Missing Space Key")
                    /\ nodes' = <<>> /\ folderTree' = [state |-> "pending"]
               ELSE IF ~built.ok
               THEN /\ run' = rejectRun(r, "File name is not unique across all folders")
                    /\ nodes' = <<>> /\ folderTree' = [state |-> "error"]
               ELSE /\ folderTree' = [state |-> "built", tree |-> built.tree]
                    /\ nodes' = IF ns[1].file = NoFile
                                THEN failNode(ns, 1, "Missing file on node")
                                ELSE resolveNode(ns, 1, parentPage, SpaceKey)
                    /\ run' = settleRun(r, nodes')
            /\ tasks' = [j \in DOMAIN nodes' |-> NoTask]
    /\ UNCHANGED <<markdownFiles, pages, attachments>>

\* ensurePageExists, lines 270-293: the answer to the fetch by stored id
getContentById(i) ==
    /\ nodes[i].pc = "getContentById"
    /\ \E outcome \in Outcomes(run) \cup (IF run.faults > 0 THEN {"nospace"} ELSE {}) :
        LET id == nodes[i].file.pageId
            contentById == [id |-> id, version |-> pages[id].version,
                            existingAdf |-> pages[id].body]
        IN  /\ nodes' = IF outcome = "error" \/ id \notin PageIds \/ ~pages[id].exists
                        THEN failNode(nodes, i, "request failed")
                        ELSE IF outcome = "nospace"
                        THEN failNode(nodes, i, "Missing Space Key")
                        ELSE resolveNode(nodes, i, contentById, SpaceKey)
            /\ run' = settleRun(spend(run, outcome), nodes')
            /\ calls' = calls \cup {Call("getContentById", id, i)}
    /\ UNCHANGED <<markdownFiles, folderTree, pages, attachments, tasks>>

\* ensurePageExists, lines 295-331: the answer to the title search; a match
\* outside the top page's tree throws, a match inside goes on to persist the
\* id, no match goes on to create the page
getContent(i) ==
    /\ nodes[i].pc = "getContent"
    /\ \E outcome \in Outcomes(run) :
        LET results == titleSearch(pages, nodes[i].file.pageTitle)
            found == CHOOSE p \in results : TRUE
            currentPage == [id |-> found, version |-> pages[found].version,
                            existingAdf |-> pages[found].body,
                            ancestors |-> ancestors(pages, found)]
        IN  /\ nodes' = IF outcome = "error"
                        THEN failNode(nodes, i, "request failed")
                        ELSE IF results = {}
                        THEN [nodes EXCEPT ![i].pc = "createContent"]
                        ELSE IF ~isInPageTree(currentPage.ancestors, TopPageId)
                        THEN [failNode(nodes, i, OutsideTreeError)
                                EXCEPT ![i].currentPage = currentPage,
                                       ![i].origin = "title"]
                        ELSE [nodes EXCEPT ![i].pc = "updateMarkdownPageId",
                                           ![i].currentPage = currentPage,
                                           ![i].origin = "title"]
            /\ run' = settleRun(spend(run, outcome), nodes')
            /\ calls' = calls \cup {Call("getContent", "", i)}
    /\ UNCHANGED <<markdownFiles, folderTree, pages, attachments, tasks>>

\* ensurePageExists, lines 332-349: the answer to the create request
createContent(i) ==
    /\ nodes[i].pc = "createContent"
    /\ \E outcome \in Outcomes(run) :
        LET request == [title |-> nodes[i].file.pageTitle,
                        ancestors |-> nodes[nodes[i].parent].file.pageId,
                        body |-> blankPageAdf]
            accepted == outcome = "ok" /\ canCreate(pages, request.title)
            id == IF accepted THEN newPageId(pages) ELSE ""
            pageDetails == [id |-> id, version |-> 1, existingAdf |-> blankPageAdf,
                            ancestors |-> {}]
        IN  /\ pages' = IF accepted THEN [pages EXCEPT ![id] = createdPage(request)]
                        ELSE pages
            /\ nodes' = IF accepted
                        THEN [nodes EXCEPT ![i].pc = "updateMarkdownPageId",
                                           ![i].currentPage = pageDetails,
                                           ![i].origin = "created"]
                        ELSE failNode(nodes, i, "request failed")
            /\ run' = settleRun(spend(run, outcome), nodes')
            /\ calls' = calls \cup
                 {[op |-> "createContent", page |-> id, node |-> i,
                   ancestors |-> request.ancestors]}
    /\ UNCHANGED <<markdownFiles, folderTree, attachments, tasks>>

\* ensurePageExists, lines 320-330 and 351-361: the adaptor has stored the
\* found or created id; the node is resolved with that page's details
updateMarkdownPageId(i) ==
    /\ nodes[i].pc = "updateMarkdownPageId"
    /\ \E outcome \in Outcomes(run) :
        /\ markdownFiles' =
              IF outcome = "ok"
              THEN storePageId(markdownFiles, nodes[i].file.absoluteFilePath,
                               nodes[i].currentPage.id)
              ELSE markdownFiles
        /\ nodes' = IF outcome = "ok"
                    THEN resolveNode(nodes, i, nodes[i].currentPage, SpaceKey)
                    ELSE failNode(nodes, i, "adaptor failed")
        /\ run' = settleRun(spend(run, outcome), nodes')
        /\ calls' = calls \cup {Call("updateMarkdownPageId", nodes[i].currentPage.id, i)}
    /\ UNCHANGED <<folderTree, pages, attachments, tasks>>

\* flattenTree, lines 56-79: the bindings to publish, in pre-order; a node
\* is pushed when the parentPageId it is given is truthy, which the root's is not
flattenTree(ns) ==
    LET pushed(j) == ns[j].parent # 0 /\ ns[ns[j].parent].file.pageId # NoPageId
        keep == {j \in DOMAIN ns : pushed(j)}
        F[j \in 0..Len(ns)] ==
            IF j = 0 THEN <<>>
            ELSE IF j \in keep
                 THEN Append(F[j - 1],
                             [ node |-> j, file |-> ns[j].file, version |-> ns[j].version,
                               existingAdf |-> ns[j].existingAdf,
                               parentPageId |-> ns[ns[j].parent].file.pageId ])
                 ELSE F[j - 1]
    IN  F[Len(ns)]

\* publishFile -> updatePageContent -> uploadFiles up to its first await,
\* the renderer's call (lines 365-519)
startTask(file) ==
    [NoTask EXCEPT !.pc = "captureMermaidCharts",
                   !.charts = mermaidNodesToUpload(file.contents)]

\* doPublish, lines 121-181, once createFileStructureInConfluence has
\* resolved: flatten, build fileToPageIdMap, rewrite the links of every
\* binding, apply the publish filter, start one publishFile per binding left
publishPages ==
    /\ run.status = "reconciling"
    /\ nodes # <<>>
    /\ \A j \in DOMAIN nodes : nodes[j].pc = "resolved"
    /\ LET confluencePagesToPublish == flattenTree(nodes)
           bound == {confluencePagesToPublish[k].node : k \in DOMAIN confluencePagesToPublish}
           map == fileToPageIdMap(nodes, Len(nodes))
           linked == [j \in DOMAIN nodes |->
                        IF j \in bound
                        THEN [nodes[j] EXCEPT !.file.contents = resolveLinks(@, map)]
                        ELSE nodes[j]]
           filtered == {j \in bound :
                           \/ run.publishFilter = EmptyString
                           \/ nodes[j].file.absoluteFilePath = run.publishFilter}
       IN  IF \E j \in bound : nodes[j].file.pageId = NoPageId
           THEN /\ run' = rejectRun(run, "Missing Page ID")
                /\ UNCHANGED <<nodes, tasks>>
           ELSE /\ nodes' = linked
                /\ tasks' = [j \in DOMAIN nodes |->
                                IF j \in filtered THEN startTask(linked[j].file) ELSE NoTask]
                /\ run' = [run EXCEPT !.status = "publishing"]
    /\ UNCHANGED <<markdownFiles, folderTree, pages, attachments, calls>>

\* publishFile without its catch: the failure rejects doPublish
publishFileRethrow(r, ts, i, reason) ==
    [ run |-> [r EXCEPT !.status = "failed", !.error = reason],
      tasks |-> [ts EXCEPT ![i].pc = "done", ![i].successfulUpload = FALSE,
                           ![i].reason = reason] ]

\* publishFile's catch, lines 387-393: the failure becomes the task's result
publishFileCatch(r, ts, i, reason) ==
    [ run |-> r,
      tasks |-> [ts EXCEPT ![i].pc = "done", ![i].successfulUpload = FALSE,
                           ![i].reason = reason] ]

succeed(t) == [t EXCEPT !.pc = "done", !.successfulUpload = TRUE]

storedImage(currentAttachments, key, name) ==
    [ filename |-> name,
      id |-> currentAttachments[key].attachmentId,
      collection |-> currentAttachments[key].collectionName ]

\* uploadFiles from the point where an awaited call has answered to the next
\* awaited call: the next binary's readBinary, the next diagram image that
\* needs uploading (uploadBuffer returns at once for one that does not), or,
\* after the rewrite of lines 576-628, updatePageContent's comparison of
\* line 419 and its updateContent call
RECURSIVE continueUploads(_, _)
continueUploads(t, node) ==
    IF t.image <= Len(t.imagesToUpload)
    THEN [t EXCEPT !.pc = "readBinary"]
    ELSE IF t.chart <= Len(t.mermaidChartsAsImages)
    THEN LET mermaidImage == t.mermaidChartsAsImages[t.chart]
             currentFileMd5 == md5(mermaidImage.bytes)
         IN  IF attachmentIsCurrent(t.currentAttachments, mermaidImage.name, currentFileMd5)
             THEN continueUploads(
                    [t EXCEPT !.imageMap = put(@, mermaidImage.name,
                                 storedImage(t.currentAttachments, mermaidImage.name,
                                             mermaidImage.name)),
                              !.chart = @ + 1],
                    node)
             ELSE [t EXCEPT !.pc = "uploadBuffer"]
    ELSE LET adr == JSONstringify(afterAdf(node.file.contents, t.imageMap))
             done == [t EXCEPT !.adr = adr, !.compared = TRUE]
         IN  IF bodyUnchanged(node.existingAdf, adr)
             THEN succeed(done)
             ELSE [done EXCEPT !.pc = "updateContent"]

\* uploadFiles, lines 516-519: the renderer has answered
captureMermaidCharts(i) ==
    /\ tasks[i].pc = "captureMermaidCharts"
    /\ \E outcome \in Outcomes(run) :
        LET r == spend(run, outcome)
            c == publishFileCatch(r, tasks, i, "render failed")
        IN  /\ run' = IF outcome = "ok" THEN r ELSE c.run
            /\ tasks' = IF outcome = "ok"
                        THEN [tasks EXCEPT ![i].pc = "getAttachments",
                                           ![i].mermaidChartsAsImages =
                                                captureCharts(tasks[i].charts)]
                        ELSE c.tasks
            /\ calls' = calls \cup
                 {[op |-> "captureMermaidCharts", page |-> nodes[i].file.pageId,
                   node |-> i, charts |-> tasks[i].charts]}
    /\ UNCHANGED <<markdownFiles, folderTree, pages, attachments, nodes>>

\* uploadFiles, lines 521-546: the attachment listing has answered
getAttachments(i) ==
    /\ tasks[i].pc = "getAttachments"
    /\ \E outcome \in Outcomes(run) :
        LET r == spend(run, outcome)
            c == publishFileCatch(r, tasks, i, "request failed")
            pageId == nodes[i].file.pageId
            listed == [tasks[i] EXCEPT
                         !.currentAttachments =
                              currentAttachmentsOf(attachments[pageId], pageId),
                         !.imagesToUpload = imagesToUpload(nodes[i].file.contents)]
        IN  /\ run' = IF outcome = "ok" THEN r ELSE c.run
            /\ tasks' = IF outcome = "ok"
                        THEN [tasks EXCEPT ![i] = continueUploads(listed, nodes[i])]
                        ELSE c.tasks
            /\ calls' = calls \cup {Call("getAttachments", pageId, i)}
    /\ UNCHANGED <<markdownFiles, folderTree, pages, attachments, nodes>>

\* uploadFile, lines 688-708 and 734: the adaptor has answered readBinary
readBinary(i) ==
    /\ tasks[i].pc = "readBinary"
    /\ \E outcome \in Outcomes(run) :
        LET r == spend(run, outcome)
            c == publishFileCatch(r, tasks, i, "read failed")
            t == tasks[i]
            imageUrl == t.imagesToUpload[t.image]
            fileNameToUpload == imageUrl[3]
            testing == vaultBinary(fileNameToUpload)
            currentFileMd5 == md5(testing.contents)
            name == uploadFilename(testing)
            next == IF testing = NoBinary
                    THEN continueUploads(
                            [t EXCEPT !.imageMap = put(@, imageUrl, NullImage),
                                      !.image = @ + 1], nodes[i])
                    ELSE IF attachmentIsCurrent(t.currentAttachments, name, currentFileMd5)
                    THEN continueUploads(
                            [t EXCEPT !.imageMap = put(@, imageUrl,
                                          storedImage(t.currentAttachments, name,
                                                      fileNameToUpload)),
                                      !.image = @ + 1], nodes[i])
                    ELSE [t EXCEPT !.pc = "uploadFile", !.testing = testing]
        IN  /\ run' = IF outcome = "ok" THEN r ELSE c.run
            /\ tasks' = IF outcome = "ok" THEN [tasks EXCEPT ![i] = next] ELSE c.tasks
            /\ calls' = calls \cup
                 {[op |-> "readBinary", page |-> nodes[i].file.pageId, node |-> i,
                   item |-> t.image]}
    /\ UNCHANGED <<markdownFiles, folderTree, pages, attachments, nodes>>

\* createOrUpdateAttachments has answered: the task's image map gets what
\* the response names, and uploadFiles goes on
attachmentCreated(i, kind, key, filename, comment, outcome) ==
    LET r == spend(run, outcome)
        c == publishFileCatch(r, tasks, i, "request failed")
        t == tasks[i]
        pageId == nodes[i].file.pageId
        remote == uploaded(attachments[pageId], filename, comment)
        uploadedContent ==
            [ filename |-> IF kind = "image" THEN key[3] ELSE filename,
              id |-> remote[filename].fileId,
              collection |-> collectionOf(pageId) ]
        next == IF kind = "image"
                THEN [t EXCEPT !.imageMap = put(@, key, uploadedContent),
                               !.image = @ + 1, !.testing = NoBinary]
                ELSE [t EXCEPT !.imageMap = put(@, key, uploadedContent),
                               !.chart = @ + 1]
    IN  /\ run' = IF outcome = "ok" THEN r ELSE c.run
        /\ tasks' = IF outcome = "ok"
                    THEN [tasks EXCEPT ![i] = continueUploads(next, nodes[i])]
                    ELSE c.tasks
        /\ attachments' = IF outcome = "ok"
                          THEN [attachments EXCEPT ![pageId] = remote]
                          ELSE attachments
        /\ calls' = calls \cup
             {[op |-> "createOrUpdateAttachments", page |-> pageId, node |-> i,
               kind |-> kind, item |-> IF kind = "image" THEN t.image ELSE t.chart,
               filename |-> filename, comment |-> comment]}

\* uploadFile, lines 710-731
uploadFile(i) ==
    /\ tasks[i].pc = "uploadFile"
    /\ \E outcome \in Outcomes(run) :
        attachmentCreated(i, "image", tasks[i].imagesToUpload[tasks[i].image],
                          uploadFilename(tasks[i].testing),
                          md5(tasks[i].testing.contents), outcome)
    /\ UNCHANGED <<markdownFiles, folderTree, pages, nodes>>

\* uploadBuffer, lines 654-676
uploadBuffer(i) ==
    /\ tasks[i].pc = "uploadBuffer"
    /\ \E outcome \in Outcomes(run) :
        LET mermaidImage == tasks[i].mermaidChartsAsImages[tasks[i].chart]
        IN  attachmentCreated(i, "chart", mermaidImage.name, mermaidImage.name,
                              md5(mermaidImage.bytes), outcome)
    /\ UNCHANGED <<markdownFiles, folderTree, pages, nodes>>

\* the labels left to handle after a label call: the next removal, the
\* addition, or nothing (lines 453-483)
labelsToAddNone(labels, currentLabels) == <<>>

labelsToAdd(labels, currentLabels) ==
    SelectSeq(labels, LAMBDA newLabel : newLabel \notin currentLabels)

continueLabels(t, labels) ==
    IF t.toRemove # {} THEN [t EXCEPT !.pc = "removeLabel"]
    ELSE IF labelsToAdd(labels, t.currentLabels) # <<>>
    THEN [t EXCEPT !.pc = "addLabelsToContent"]
    ELSE succeed(t)

\* updatePageContent, lines 424-441: the update request and its answer
updateContentDetails(node, parentPageId, adr) ==
    [ id |-> node.file.pageId,
      ancestors |-> IF node.file.dontChangeParentPageId THEN "" ELSE parentPageId,
      version |-> node.version + 1,
      title |-> node.file.pageTitle,
      body |-> adr ]

updateContent(i) ==
    /\ tasks[i].pc = "updateContent"
    /\ \E outcome \in Outcomes(run) :
        LET r == spend(run, outcome)
            c == publishFileCatch(r, tasks, i, "request failed")
            request == updateContentDetails(nodes[i], nodes[nodes[i].parent].file.pageId,
                                            tasks[i].adr)
            accepted == outcome = "ok" /\ canUpdate(pages, request)
        IN  /\ run' = IF accepted THEN r ELSE c.run
            /\ tasks' = IF accepted
                        THEN [tasks EXCEPT ![i].pc = "getLabelsForContent"]
                        ELSE c.tasks
            /\ pages' = IF accepted
                        THEN [pages EXCEPT ![request.id] = updatedPage(@, request)]
                        ELSE pages
            /\ calls' = calls \cup
                 {[op |-> "updateContent", page |-> request.id, node |-> i,
                   version |-> request.version, ancestors |-> request.ancestors,
                   remoteVersion |-> pages[request.id].version,
                   inTree |-> TopPageId \in ancestors(pages, request.id)]}
    /\ UNCHANGED <<markdownFiles, folderTree, attachments, nodes>>

\* updatePageContent, lines 442-452: the label listing has answered
getLabelsForContent(i) ==
    /\ tasks[i].pc = "getLabelsForContent"
    /\ \E outcome \in Outcomes(run) :
        LET r == spend(run, outcome)
            c == publishFileCatch(r, tasks, i, "request failed")
            labels == nodes[i].file.tags
            currentLabels == pages[nodes[i].file.pageId].labels
            listed == [tasks[i] EXCEPT
                         !.currentLabels = currentLabels,
                         !.toRemove = {l \in currentLabels :
                                         \A k \in DOMAIN labels : labels[k] # l}]
        IN  /\ run' = IF outcome = "ok" THEN r ELSE c.run
            /\ tasks' = IF outcome = "ok"
                        THEN [tasks EXCEPT ![i] = continueLabels(listed, labels)]
                        ELSE c.tasks
            /\ calls' = calls \cup {Call("getLabelsForContent", nodes[i].file.pageId, i)}
    /\ UNCHANGED <<markdownFiles, folderTree, pages, attachments, nodes>>

\* updatePageContent, lines 453-462: one removal has answered
removeLabel(i) ==
    /\ tasks[i].pc = "removeLabel"
    /\ \E outcome \in Outcomes(run) :
        LET r == spend(run, outcome)
            c == publishFileCatch(r, tasks, i, "request failed")
            pageId == nodes[i].file.pageId
            existingLabel == CHOOSE l \in tasks[i].toRemove : TRUE
            next == [tasks[i] EXCEPT !.toRemove = @ \ {existingLabel}]
        IN  /\ run' = IF outcome = "ok" THEN r ELSE c.run
            /\ tasks' = IF outcome = "ok"
                        THEN [tasks EXCEPT ![i] = continueLabels(next, nodes[i].file.tags)]
                        ELSE c.tasks
            /\ pages' = IF outcome = "ok"
                        THEN [pages EXCEPT ![pageId].labels = @ \ {existingLabel}]
                        ELSE pages
            /\ calls' = calls \cup
                 {[op |-> "removeLabel", page |-> pageId, node |-> i,
                   name |-> existingLabel]}
    /\ UNCHANGED <<markdownFiles, folderTree, attachments, nodes>>

\* updatePageContent, lines 464-483: the addition has answered
addLabelsToContent(i) ==
    /\ tasks[i].pc = "addLabelsToContent"
    /\ \E outcome \in Outcomes(run) :
        LET r == spend(run, outcome)
            c == publishFileCatch(r, tasks, i, "request failed")
            pageId == nodes[i].file.pageId
            body == labelsToAdd(nodes[i].file.tags, tasks[i].currentLabels)
        IN  /\ run' = IF outcome = "ok" THEN r ELSE c.run
            /\ tasks' = IF outcome = "ok"
                        THEN [tasks EXCEPT ![i] = succeed(tasks[i])]
                        ELSE c.tasks
            /\ pages' = IF outcome = "ok"
                        THEN [pages EXCEPT ![pageId].labels =
                                  @ \cup {body[k] : k \in DOMAIN body}]
                        ELSE pages
            /\ calls' = calls \cup
                 {[op |-> "addLabelsToContent", page |-> pageId, node |-> i,
                   names |-> body]}
    /\ UNCHANGED <<markdownFiles, folderTree, attachments, nodes>>

\* doPublish, lines 183-203: every publishFile has settled; the outcome
\* summary is built from their results, in the bindings' order
launched == {j \in DOMAIN tasks : tasks[j].pc # "none"}

RECURSIVE failedFilesOf(_, _, _)
failedFilesOf(ns, ts, j) ==
    IF j = 0 THEN <<>>
    ELSE IF ts[j].pc = "done" /\ ~ts[j].successfulUpload
         THEN Append(failedFilesOf(ns, ts, j - 1),
                     [fileName |-> ns[j].file.absoluteFilePath, reason |-> ts[j].reason])
         ELSE failedFilesOf(ns, ts, j - 1)

returnResults ==
    /\ run.status = "publishing"
    /\ \A j \in launched : tasks[j].pc = "done"
    /\ run' = [run EXCEPT
                 !.status = "returned",
                 !.successfulUploads =
                     Cardinality({j \in launched : tasks[j].successfulUpload}),
                 !.failedFiles = failedFilesOf(nodes, tasks, Len(tasks))]
    /\ UNCHANGED <<markdownFiles, folderTree, pages, attachments, nodes, tasks, calls>>

(***************************************************************************)
(* The tree builder on its own: createFolderStructure applied to every     *)
(* list of at most MaxFiles documents drawn from TreePaths.                *)
(***************************************************************************)
MaxFiles == 3

Abs(dirs, name) == << <<"">>, <<"r">> >> \o dirs \o name

\* absolute paths under /r: files in the root folder, in folders d and e,
\* in a folder d inside e, and in a folder d inside d
TreePaths ==
    { Abs(<<>>, Md("a")),
      Abs(<<>>, Md("index")),
      Abs(<< <<"d">> >>, Md("a")),
      Abs(<< <<"d">> >>, Md("c")),
      Abs(<< <<"e">> >>, Md("d")),
      Abs(<< <<"e">>, <<"d">> >>, Md("b")),
      Abs(<< <<"d">>, <<"d">> >>, Md("b")) }

\* a MarkdownFile as the adaptor lists it: fileName is the path's base name
MarkdownFile(absPath, title, id, tagSet, body, keepParent) ==
    [ folderName |-> baseName(absPath),
      absoluteFilePath |-> absPath,
      fileName |-> baseName(absPath),
      contents |-> body,
      pageTitle |-> title,
      tags |-> tagSet,
      pageId |-> id,
      dontChangeParentPageId |-> keepParent,
      spaceKey |-> "" ]

\* the title of the front matter: "Root" for /r/index.md, "A" for /r/a.md,
\* the file's name without extension for the others
TreeTitle(absPath) ==
    IF absPath = Abs(<<>>, Md("index")) THEN S("Root")
    ELSE IF absPath = Abs(<<>>, Md("a")) THEN S("A")
    ELSE parseName(absPath)

TreeFile(absPath) ==
    MarkdownFile(absPath, TreeTitle(absPath), NoPageId, <<>>, <<>>, FALSE)

FileLists ==
    UNION { [1..n -> {TreeFile(p) : p \in TreePaths}] : n \in 1..MaxFiles }

IdleRun(faults, runsLeft, publishFilter) ==
    [ status |-> "idle", error |-> "", n |-> 0,
      faults |-> faults, runsLeft |-> runsLeft, publishFilter |-> publishFilter,
      successfulUploads |-> 0, failedFiles |-> <<>>,
      prev |-> [returned |-> FALSE, failedFiles |-> <<>>,
                versions |-> [id \in PageIds |-> 0], calls |-> {}] ]

\* the remote before the run: the top page, a page "in" titled A below it
\* and a page "out" titled X beside it, outside the top page's tree
Page(title, parent, version, body, labels) ==
    [ exists |-> TRUE, title |-> title, parent |-> parent, version |-> version,
      body |-> body, labels |-> labels ]

StaleBody == JSONstringify(<<Text(S("an older text"))>>)

RemotePages(inBody) ==
    [id \in PageIds |->
        CASE id = "top" -> Page(S("Top"), "", 7, StaleBody, {})
          [] id = "out" -> Page(S("X"), "", 3, StaleBody, {"theirs"})
          [] id = "in"  -> Page(S("A"), "top", 2, inBody, {"old", "keep"})
          [] OTHER -> NoPage]

NoAttachments == [id \in PageIds |-> <<>>]

TreeInit ==
    /\ markdownFiles \in FileLists
    /\ folderTree = [state |-> "pending"]
    /\ pages = RemotePages(StaleBody)
    /\ attachments = NoAttachments
    /\ run = IdleRun(0, 0, EmptyString)
    /\ nodes = <<>>
    /\ tasks = <<>>
    /\ calls = {}

\* one call of createFolderStructure(markdownFiles)
BuildTree ==
    /\ folderTree.state = "pending"
    /\ LET built == createFolderStructure(markdownFiles)
       IN  folderTree' = IF built.ok
                         THEN [state |-> "built", tree |-> built.tree]
                         ELSE [state |-> "error"]
    /\ UNCHANGED <<markdownFiles, pages, attachments, run, nodes, tasks, calls>>

TreeNext == BuildTree

SpecTree == TreeInit /\ [][TreeNext]_vars

(***************************************************************************)
(* Publish runs                                                            *)
(***************************************************************************)
MaxFaults == 1

PlainBody == <<Text(S("plain text"))>>

RichBody ==
    << Text(S("hello")),
       Link(S("b"), "wikilink", S("b"), ""),
       Link(S("see"), "wikilink", S("nowhere"), "#h"),
       Media("logo.png"),
       Mermaid("g1") >>

PathA == Abs(<<>>, Md("a"))
PathB == Abs(<<>>, Md("b"))
PathD == Abs(<< <<"d">> >>, Md("d"))
PathC == Abs(<< <<"d">> >>, Md("c"))

\* two documents side by side under the root: a is new, or has the title of
\* the page inside the tree or of the page outside it, or carries a stored
\* id (of the page inside, of the page outside, of the top page itself); b
\* is new, or has the title of the page inside the tree, or carries that
\* page's stored id, or has the title a has when a is new
Siblings ==
    { << MarkdownFile(PathA, S(a[1]), a[2], <<"keep", "new">>, RichBody, a[3]),
         MarkdownFile(PathB, S(b[1]), b[2], <<>>, PlainBody, FALSE) >> :
        a \in { <<"N", "", FALSE>>, <<"A", "", FALSE>>, <<"X", "", FALSE>>,
                <<"A", "in", FALSE>>, <<"X", "out", FALSE>>, <<"Top", "top", TRUE>> },
        b \in { <<"B", "", FALSE>>, <<"A", "", FALSE>>, <<"A", "in", FALSE>>,
                <<"N", "", FALSE>> } }

\* a folder d with its index document d.md and a document c below it
Nested ==
    { << MarkdownFile(PathD, S("D"), "", <<>>, PlainBody, FALSE),
         MarkdownFile(PathC, S(c[1]), c[2], <<"keep">>, PlainBody, c[3]) >> :
        c \in { <<"C", "", FALSE>>, <<"A", "", FALSE>>, <<"A", "in", TRUE>> } }

\* a document beside a folder d that has no index document
LinkBody ==
    << Link(S("the folder"), "wikilink", S("d"), "#x"),
       Link(S("c"), "wikilink", S("c"), "#y"),
       Link(S("elsewhere"), "https", S("example"), ""),
       Link(S("gone"), "wikilink", S("gone"), "") >>

Folder ==
    { << MarkdownFile(PathA, S("N"), "", <<>>, LinkBody, FALSE),
         MarkdownFile(PathC, S("C"), "", <<"keep">>, PlainBody, FALSE) >> }

\* a document beside a folder d that holds only a folder d with a document
Deep ==
    { << MarkdownFile(PathA, S("N"), "", <<>>, PlainBody, FALSE),
         MarkdownFile(Abs(<< <<"d">>, <<"d">> >>, Md("b")), S("B"), "", <<>>,
                      PlainBody, FALSE) >> }

Corpora == Siblings \cup Nested \cup Folder \cup Deep

Init ==
    /\ markdownFiles \in Corpora
    /\ folderTree = [state |-> "pending"]
    /\ pages \in {RemotePages(StaleBody), RemotePages(JSONstringify(PlainBody))}
    /\ attachments = NoAttachments
    /\ run \in {IdleRun(MaxFaults, 1, f) : f \in {EmptyString, PathA}}
    /\ nodes = <<>>
    /\ tasks = <<>>
    /\ calls = {}

Next ==
    \/ doPublish
    \/ \E i \in DOMAIN nodes : getContentById(i)
    \/ \E i \in DOMAIN nodes : getContent(i)
    \/ \E i \in DOMAIN nodes : createContent(i)
    \/ \E i \in DOMAIN nodes : updateMarkdownPageId(i)
    \/ publishPages
    \/ \E i \in DOMAIN tasks : captureMermaidCharts(i)
    \/ \E i \in DOMAIN tasks : getAttachments(i)
    \/ \E i \in DOMAIN tasks : readBinary(i)
    \/ \E i \in DOMAIN tasks : uploadFile(i)
    \/ \E i \in DOMAIN tasks : uploadBuffer(i)
    \/ \E i \in DOMAIN tasks : updateContent(i)
    \/ \E i \in DOMAIN tasks : getLabelsForContent(i)
    \/ \E i \in DOMAIN tasks : removeLabel(i)
    \/ \E i \in DOMAIN tasks : addLabelsToContent(i)
    \/ returnResults

Spec == Init /\ [][Next]_vars

\* the documents attached to the nodes of a tree, in pre-order
RECURSIVE treeFiles(_)
treeFiles(node) ==
    (IF node.file = NoFile THEN <<>> ELSE <<node.file>>)
    \o concatAll([i \in DOMAIN node.children |-> treeFiles(node.children[i])])

SameFileNameTwice(files) ==
    \E i, j \in DOMAIN files : i # j /\ files[i].fileName = files[j].fileName

(* C10: an input with two source documents of the same derived filename    *)
(* makes createFolderStructure fail, and in every returned tree no two     *)
(* documents attached to nodes, synthesized folder documents included,     *)
(* share a derived filename.                                               *)
C10_FilenamesUnique ==
    /\ (folderTree.state # "pending" /\ SameFileNameTwice(markdownFiles))
          => folderTree.state = "error"
    /\ folderTree.state = "built"
          => ~SameFileNameTwice(treeFiles(folderTree.tree))

\* the same corpora, published twice in a row with no call failing
RerunInit ==
    /\ markdownFiles \in Corpora
    /\ folderTree = [state |-> "pending"]
    /\ pages \in {RemotePages(StaleBody), RemotePages(JSONstringify(PlainBody))}
    /\ attachments = NoAttachments
    /\ run = IdleRun(0, 2, EmptyString)
    /\ nodes = <<>>
    /\ tasks = <<>>
    /\ calls = {}

SpecRerun == RerunInit /\ [][Next]_vars

(***************************************************************************)
(* Media and diagrams: a document with two binaries of the same bytes      *)
(* under different paths, a binary referenced twice, a binary the vault    *)
(* does not have, and two diagram blocks of the same text, published       *)
(* twice; the page may already hold attachments, current or stale.         *)
(***************************************************************************)
UploadBody ==
    << Media("logo.png"),
       Media("old/logo.png"),
       Media("logo.png"),
       Media("gone.png"),
       Mermaid("g1"),
       Mermaid("g2"),
       Mermaid("g1") >>

UploadCorpora ==
    { << MarkdownFile(PathA, S(a[1]), a[2], <<"keep", "new">>, UploadBody, FALSE),
         MarkdownFile(PathB, S("B"), "", <<>>, PlainBody, FALSE) >> :
        a \in { <<"N", "">>, <<"A", "">>, <<"A", "in">> } }

Attachment(comment) ==
    [comment |-> comment, fileId |-> [content |-> comment, upload |-> 1]]

LogoName == uploadFilename(vaultBinary("logo.png"))
ChartName == getMermaidFileName("g2").uploadFilename

\* what the page inside the tree holds before the first run
InitialAttachments ==
    { logo @@ chart :
        logo \in { <<>>,
                   LogoName :> Attachment(md5("bytes1")),
                   LogoName :> Attachment(md5("bytes0")) },
        chart \in { <<>>,
                    ChartName :> Attachment(md5("png-g2")),
                    ChartName :> Attachment(md5("png-old")) } }

UploadInit ==
    /\ markdownFiles \in UploadCorpora
    /\ folderTree = [state |-> "pending"]
    /\ pages = RemotePages(StaleBody)
    /\ attachments \in {[NoAttachments EXCEPT !["in"] = held] : held \in InitialAttachments}
    /\ run \in {IdleRun(f, 2, EmptyString) : f \in {0, MaxFaults}}
    /\ nodes = <<>>
    /\ tasks = <<>>
    /\ calls = {}

SpecUpload == UploadInit /\ [][Next]_vars

(***************************************************************************)
(* Claims                                                                  *)
(***************************************************************************)
WriteOps ==
    { "createContent", "updateMarkdownPageId", "updateContent",
      "createOrUpdateAttachments", "removeLabel", "addLabelsToContent" }

PageWriteOps ==
    {"updateContent", "createOrUpdateAttachments", "removeLabel", "addLabelsToContent"}

LabelOps == {"getLabelsForContent", "removeLabel", "addLabelsToContent"}

\* the title search of node j answered with a page outside the top page's tree
FoundOutside(j) ==
    /\ nodes[j].origin = "title"
    /\ TopPageId \notin nodes[j].currentPage.ancestors

(* C1: when a document without a stored page id gets, from the title       *)
(* search, a page whose ancestors do not include the top page, its         *)
(* reconciliation fails with the "outside the page tree" error, the run    *)
(* fails, and no write (stored id, body update, attachment upload, label   *)
(* change, page creation) is ever issued against the found page.           *)
C1_OutsideMatchFailsUntouched ==
    \A j \in DOMAIN nodes :
        FoundOutside(j) =>
            /\ nodes[j].pc = "failed"
            /\ nodes[j].error = OutsideTreeError
            /\ run.status = "failed"
            /\ \A c \in calls : c.op \in WriteOps => c.page # nodes[j].currentPage.id

C1_Witness ==
    \E j \in DOMAIN nodes :
        /\ FoundOutside(j)
        /\ nodes[j].file.pageId = NoPageId
        /\ run.status = "failed" /\ run.error = OutsideTreeError
        /\ \A k \in DOMAIN nodes : nodes[k].pc \in {"resolved", "failed"}

(* C2: every non-root document is bound to a page that has the top page    *)
(* among its ancestors, however it was bound (stored id, title search,     *)
(* creation), and no page outside the top page's tree gets a body update.  *)
C2_BoundInsideTopTree ==
    /\ run.status = "reconciling" =>
          \A j \in DOMAIN nodes :
              (j > 1 /\ nodes[j].pc = "resolved") =>
                  TopPageId \in ancestors(pages, nodes[j].file.pageId)
    /\ \A c \in calls : c.op = "updateContent" => c.inTree

(* C3: the top page is never overwritten: no create call for the root      *)
(* node, and no body update, attachment upload or label change against     *)
(* the top page's id.                                                      *)
C3_TopPageNeverWritten ==
    \A c \in calls :
        /\ c.op = "createContent" => c.node # 1
        /\ c.op \in PageWriteOps => c.page # TopPageId

(* C4: a second run over the same documents, after a first run in which    *)
(* every page succeeded, issues no body update and raises no page's        *)
(* version.                                                                *)
C4_SecondRunChangesNothing ==
    (run.n = 2 /\ run.prev.returned /\ run.prev.failedFiles = <<>>) =>
        /\ \A c \in calls : c.op # "updateContent"
        /\ \A id \in PageIds : pages[id].version = run.prev.versions[id]

\* one more step of the publish task of node j
TaskStep(j) ==
    \/ captureMermaidCharts(j) \/ getAttachments(j) \/ readBinary(j)
    \/ uploadFile(j) \/ uploadBuffer(j) \/ updateContent(j)
    \/ getLabelsForContent(j) \/ removeLabel(j) \/ addLabelsToContent(j)

\* the entries of the outcome's failedFiles that name node j's document
listedAs(j) ==
    {k \in DOMAIN run.failedFiles :
        run.failedFiles[k].fileName = nodes[j].file.absoluteFilePath}

(* C5: once the publish tasks are launched the run never fails, whatever   *)
(* call fails inside a task; a task that has not settled can always take   *)
(* its next step, whatever happened to the others; and when doPublish      *)
(* returns, every launched binding has settled and appears exactly once    *)
(* in the outcome: counted in successfulUploads, or listed in failedFiles  *)
(* under its path with a reason.                                           *)
C5_PageFailureIsolated ==
    /\ launched # {} => run.status \in {"publishing", "returned"}
    /\ \A j \in launched : tasks[j].pc # "done" => ENABLED TaskStep(j)
    /\ run.status = "returned" =>
          /\ \A j \in launched : tasks[j].pc = "done"
          /\ run.successfulUploads + Len(run.failedFiles) = Cardinality(launched)
          /\ \A j \in launched :
                IF tasks[j].reason = ""
                THEN listedAs(j) = {}
                ELSE /\ Cardinality(listedAs(j)) = 1
                     /\ \A k \in listedAs(j) : run.failedFiles[k].reason = tasks[j].reason
          /\ \A k \in DOMAIN run.failedFiles : \E j \in launched : k \in listedAs(j)

C5_Witness ==
    /\ run.status = "returned"
    /\ Len(run.failedFiles) = 1
    /\ run.successfulUploads >= 1
    /\ \E j \in launched : tasks[j].reason # ""
    /\ \E j \in launched : tasks[j].reason = "" /\ \E c \in calls : c.node = j /\ c.op = "updateContent"

(* C6: when the serialized body a page's task arrives at, after the asset  *)
(* rewrite, equals the body recorded for the page during reconciliation,   *)
(* the task ends successful, and neither an update call nor a label call   *)
(* (list, add, remove) is issued by it.                                    *)
C6_UnchangedBodyNoCalls ==
    \A j \in DOMAIN tasks :
        (tasks[j].compared /\ tasks[j].adr = nodes[j].existingAdf) =>
            /\ tasks[j].pc = "done"
            /\ tasks[j].successfulUpload
            /\ \A c \in calls : c.node = j => c.op \notin {"updateContent"} \cup LabelOps

C6_Witness ==
    \E j \in DOMAIN tasks :
        /\ tasks[j].compared /\ tasks[j].adr = nodes[j].existingAdf
        /\ tasks[j].adr # JSONstringify(<<>>)
        /\ run.status = "returned" /\ run.successfulUploads >= 1

\* the upload items of the task of node i: its distinct binaries and its
\* rendered images, each with the name and the fingerprint it is looked up by
Items(i) ==
    {<<"image", k>> : k \in DOMAIN tasks[i].imagesToUpload}
    \cup {<<"chart", k>> : k \in DOMAIN tasks[i].mermaidChartsAsImages}

itemKey(i, item) ==
    IF item[1] = "image" THEN tasks[i].imagesToUpload[item[2]]
    ELSE tasks[i].mermaidChartsAsImages[item[2]].name

itemBinary(i, item) == vaultBinary(itemKey(i, item)[3])

readable(i, item) == item[1] = "chart" \/ itemBinary(i, item) # NoBinary

itemName(i, item) ==
    IF item[1] = "image" THEN uploadFilename(itemBinary(i, item)) ELSE itemKey(i, item)

itemHash(i, item) ==
    IF item[1] = "image" THEN md5(itemBinary(i, item).contents)
    ELSE md5(tasks[i].mermaidChartsAsImages[item[2]].bytes)

\* uploadFiles has gone past the item
handled(i, item) ==
    /\ tasks[i].pc \notin {"none", "captureMermaidCharts", "getAttachments"}
    /\ IF item[1] = "image" THEN tasks[i].image > item[2]
       ELSE tasks[i].image > Len(tasks[i].imagesToUpload) /\ tasks[i].chart > item[2]

uploadsOf(cs, i, item) ==
    {c \in cs : /\ c.op = "createOrUpdateAttachments" /\ c.node = i
                /\ c.kind = item[1] /\ c.item = item[2]}

\* the snapshot holds an entry of that name with that fingerprint
snapshotMatches(i, item) ==
    \E title \in DOMAIN tasks[i].currentAttachments :
        /\ title = itemName(i, item)
        /\ tasks[i].currentAttachments[title].filehash = itemHash(i, item)

\* the references of the rewritten body to the item
referencesOf(i, item) ==
    LET contents == nodes[i].file.contents
        body == tasks[i].adr[1]
    IN  IF item[1] = "image"
        THEN {body[p].attrs : p \in {q \in DOMAIN contents :
                    isFileMedia(contents[q]) /\ contents[q].attrs.url = itemKey(i, item)}}
        ELSE {body[p].content[1].attrs : p \in {q \in DOMAIN contents :
                    /\ isMermaid(contents[q])
                    /\ getMermaidFileName(contents[q].text).uploadFilename = itemKey(i, item)}}

(* C7: for every readable binary and every rendered diagram image that a   *)
(* page's task has handled, an upload call was issued exactly when the     *)
(* attachment snapshot holds no entry under the item's upload filename     *)
(* with the item's fresh fingerprint; with such an entry, the image map    *)
(* and the rewritten body carry the stored attachment id and collection;   *)
(* every upload call carries the fresh fingerprint as its comment and the  *)
(* upload filename as its name.                                            *)
C7_UploadIffNoCurrentAttachment ==
    \A i \in DOMAIN tasks : \A item \in Items(i) :
        /\ (handled(i, item) /\ readable(i, item)) =>
              (uploadsOf(calls, i, item) # {} <=> ~snapshotMatches(i, item))
        /\ ~readable(i, item) => uploadsOf(calls, i, item) = {}
        /\ \A c \in uploadsOf(calls, i, item) :
              /\ ~snapshotMatches(i, item)
              /\ c.comment = itemHash(i, item)
              /\ c.filename = itemName(i, item)
        /\ (handled(i, item) /\ readable(i, item) /\ snapshotMatches(i, item)) =>
              LET stored == tasks[i].currentAttachments[itemName(i, item)]
              IN  /\ tasks[i].imageMap[itemKey(i, item)].id = stored.attachmentId
                  /\ tasks[i].imageMap[itemKey(i, item)].collection = stored.collectionName
                  /\ tasks[i].compared =>
                        \A ref \in referencesOf(i, item) :
                            /\ ref.id = stored.attachmentId
                            /\ ref.collection = stored.collectionName

C7_Witness ==
    /\ run.n = 1 /\ run.status = "returned" /\ run.failedFiles = <<>>
    /\ \E i \in DOMAIN tasks :
        /\ tasks[i].compared
        /\ \E item \in Items(i) :
              /\ item[1] = "image" /\ readable(i, item) /\ snapshotMatches(i, item)
              /\ uploadsOf(calls, i, item) = {} /\ referencesOf(i, item) # {}
        /\ \E item \in Items(i) :
              /\ item[1] = "image" /\ readable(i, item) /\ ~snapshotMatches(i, item)
              /\ uploadsOf(calls, i, item) # {}
        /\ \E item \in Items(i) :
              /\ readable(i, item)
              /\ itemName(i, item) \in DOMAIN tasks[i].currentAttachments
              /\ ~snapshotMatches(i, item)
              /\ uploadsOf(calls, i, item) # {}

\* two binaries of the task of node i with the same bytes under different paths
Twins(i) ==
    {pair \in Items(i) \X Items(i) :
        /\ pair[1][1] = "image" /\ pair[2][1] = "image"
        /\ itemBinary(i, pair[1]) # NoBinary /\ itemBinary(i, pair[2]) # NoBinary
        /\ itemBinary(i, pair[1]).contents = itemBinary(i, pair[2]).contents
        /\ itemBinary(i, pair[1]).filePath # itemBinary(i, pair[2]).filePath}

(* C8: of two binaries of one page with identical bytes and different      *)
(* source paths, a first run that finds neither on the page uploads both,  *)
(* under two distinct filenames; a second run, after a first one in which  *)
(* every page succeeded, uploads neither.                                  *)
C8_TwinsUploadedOnceEach ==
    \A i \in DOMAIN tasks : \A pair \in Twins(i) :
        /\ ( /\ run.n = 1
             /\ handled(i, pair[1]) /\ handled(i, pair[2])
             /\ \A title \in DOMAIN tasks[i].currentAttachments :
                    title[3] # itemBinary(i, pair[1]).filename ) =>
              /\ Cardinality(uploadsOf(calls, i, pair[1])) = 1
              /\ Cardinality(uploadsOf(calls, i, pair[2])) = 1
              /\ \A c \in uploadsOf(calls, i, pair[1]) :
                    \A d \in uploadsOf(calls, i, pair[2]) : c.filename # d.filename
        /\ (run.n = 2 /\ run.prev.returned /\ run.prev.failedFiles = <<>>) =>
              /\ uploadsOf(calls, i, pair[1]) = {}
              /\ uploadsOf(calls, i, pair[2]) = {}

C8_Witness ==
    /\ run.n = 2 /\ run.status = "returned" /\ run.failedFiles = <<>>
    /\ run.prev.returned /\ run.prev.failedFiles = <<>>
    /\ \E i \in DOMAIN tasks : \E pair \in Twins(i) :
          /\ handled(i, pair[1]) /\ handled(i, pair[2])
          /\ \E c, d \in run.prev.calls :
                /\ c.op = "createOrUpdateAttachments" /\ d.op = "createOrUpdateAttachments"
                /\ c.node = i /\ d.node = i /\ c.kind = "image" /\ d.kind = "image"
                /\ c.item = pair[1][2] /\ d.item = pair[2][2]
                /\ c.filename # d.filename
          /\ uploadsOf(calls, i, pair[1]) = {}
          /\ uploadsOf(calls, i, pair[2]) = {}

(* C9: a page with several diagram blocks of the same text gets at most    *)
(* one upload per diagram filename in a run, and exactly one when the      *)
(* snapshot has no current attachment for it; every block of that text     *)
(* references the image of that upload.                                    *)
C9_OneUploadPerDiagram ==
    \A i \in DOMAIN tasks :
        LET chartUploads == {u \in calls : /\ u.op = "createOrUpdateAttachments"
                                           /\ u.node = i /\ u.kind = "chart"}
        IN  /\ \A c, d \in chartUploads : c.filename = d.filename => c.item = d.item
            /\ \A item \in Items(i) :
                  ( /\ item[1] = "chart" /\ ~snapshotMatches(i, item)
                    /\ tasks[i].compared ) =>
                      /\ \E c \in chartUploads : c.filename = itemName(i, item)
                      /\ \A ref, other \in referencesOf(i, item) : ref = other

\* every node of the tree has a document
RECURSIVE everyNodeHasFile(_)
everyNodeHasFile(node) ==
    /\ node.file # NoFile
    /\ \A k \in DOMAIN node.children : everyNodeHasFile(node.children[k])

(* C11: whenever createFolderStructure returns a tree for a non-empty list *)
(* of documents, every node of the tree, the root, the folders and the     *)
(* files at any depth, has a document.                                     *)
C11_EveryNodeHasDocument ==
    folderTree.state = "built" => everyNodeHasFile(folderTree.tree)

\* the paths of the documents, split into components
filePaths == [k \in DOMAIN markdownFiles |-> pathSplit(markdownFiles[k].absoluteFilePath)]

sharedUpTo(n) ==
    \A j, k \in DOMAIN filePaths :
        /\ Len(filePaths[j]) >= n
        /\ SubSeq(filePaths[j], 1, n) = SubSeq(filePaths[k], 1, n)

\* the longest component prefix all paths share
longestSharedPrefix ==
    LET n == CHOOSE m \in 0..Len(filePaths[1]) :
                 sharedUpTo(m) /\ \A l \in (m + 1)..Len(filePaths[1]) : ~sharedUpTo(l)
    IN  SubSeq(filePaths[1], 1, n)

parentDirectory(parts) == SubSeq(parts, 1, Len(parts) - 1)

(* C12: the common path createFolderStructure computes (the name of the    *)
(* root node) is the longest component prefix shared by all document       *)
(* paths, and for a single document it is the document's parent directory. *)
C12_CommonPathIsSharedPrefix ==
    folderTree.state = "built" =>
        /\ Len(markdownFiles) > 1 =>
              folderTree.tree.name = pathJoin(longestSharedPrefix)
        /\ Len(markdownFiles) = 1 =>
              folderTree.tree.name = pathJoin(parentDirectory(filePaths[1]))

IndexCorpus ==
    { <<TreeFile(Abs(<<>>, Md("index"))), TreeFile(Abs(<<>>, Md("a")))>>,
      <<TreeFile(Abs(<<>>, Md("a"))), TreeFile(Abs(<<>>, Md("index")))>> }

(* C13: for the corpus root/index.md (title "Root") and root/a.md (title   *)
(* "A"), the returned tree has the "Root" document on its root node and    *)
(* exactly one child, with the document "A".                               *)
C13_IndexBecomesRoot ==
    (folderTree.state = "built" /\ markdownFiles \in IndexCorpus) =>
        /\ folderTree.tree.file # NoFile
        /\ folderTree.tree.file.pageTitle = S("Root")
        /\ Len(folderTree.tree.children) = 1
        /\ folderTree.tree.children[1].file # NoFile
        /\ folderTree.tree.children[1].file.pageTitle = S("A")

\* the calls made for a document other than the one the filter names
forOtherDocuments ==
    {c \in calls : /\ c.node \in DOMAIN nodes
                   /\ nodes[c.node].file # NoFile
                   /\ nodes[c.node].file.absoluteFilePath # run.publishFilter}

(* C14: in a run with a publish filter, no page creation, body update,     *)
(* attachment upload or label change is issued for a document whose path   *)
(* is not the filter, and the outcome lists and counts only bindings of    *)
(* that path.                                                              *)
C14_FilterRestrictsRun ==
    run.publishFilter # EmptyString =>
        /\ \A c \in forOtherDocuments : c.op \notin {"createContent"} \cup PageWriteOps
        /\ run.status = "returned" =>
              /\ \A k \in DOMAIN run.failedFiles :
                    run.failedFiles[k].fileName = run.publishFilter
              /\ run.successfulUploads + Len(run.failedFiles) =
                    Cardinality({j \in DOMAIN nodes :
                        j > 1 /\ nodes[j].file.absoluteFilePath = run.publishFilter})

ReconcileOps == {"getContentById", "getContent", "createContent"}

(* C15: a node below the root is not started, and no fetch, search or      *)
(* create call is issued for it, before its parent node is resolved; every *)
(* create request names the parent node's resolved page id as its          *)
(* ancestor; in every interleaving of the sibling calls.                   *)
C15_ParentBeforeChildren ==
    /\ \A j \in DOMAIN nodes :
          (j > 1 /\ nodes[j].pc # "notStarted") => nodes[nodes[j].parent].pc = "resolved"
    /\ \A c \in calls :
          (c.node > 1 /\ c.op \in ReconcileOps) =>
              /\ nodes[nodes[c.node].parent].pc = "resolved"
              /\ c.op = "createContent" =>
                    /\ c.ancestors # NoPageId
                    /\ c.ancestors = nodes[nodes[c.node].parent].file.pageId

C15_Witness ==
    \E c \in calls :
        /\ c.op = "createContent" /\ c.node > 1
        /\ nodes[c.node].parent > 1
        /\ c.ancestors \in {NewPageIds[k] : k \in DOMAIN NewPageIds}
        /\ \E d \in calls : d.op = "createContent" /\ d.node = nodes[c.node].parent
        /\ \E j \in DOMAIN nodes : nodes[j].parent = 1 /\ j # nodes[c.node].parent

(* C16: when a step of the reconciliation fails (the top page has no       *)
(* space, a page fetched by stored id has none, a title match lies outside *)
(* the tree, a fetch, search, create or adaptor call fails, a binding has  *)
(* no page id), doPublish fails with the error of a failed step, returns   *)
(* no outcome summary, launches no publish task, and no body update,       *)
(* attachment upload or label change is issued in that run.                *)
C16_ReconcileFailureFailsRun ==
    /\ thrown(nodes) # {} =>
          /\ run.status = "failed"
          /\ \E j \in thrown(nodes) : run.error = nodes[j].error
    /\ run.status = "failed" =>
          /\ run.error # ""
          /\ launched = {}
          /\ run.successfulUploads = 0 /\ run.failedFiles = <<>>
          /\ \A c \in calls : c.op \notin PageWriteOps

C16_Witness ==
    /\ run.status = "failed"
    /\ \E j \in thrown(nodes) :
          /\ run.error = nodes[j].error
          /\ \E c \in calls : c.op = "createContent" /\ c.node # j /\ c.page # ""
    /\ \A j \in DOMAIN nodes : nodes[j].pc \in {"resolved", "failed", "notStarted"}

(* C17: every update request carries the version reconciliation recorded   *)
(* for the page plus one, which is one more than the version the remote    *)
(* page holds when the request arrives (only the run writes to the         *)
(* remote); it names the parent's page id as ancestor exactly when the     *)
(* document does not ask to keep its parent.                               *)
C17_UpdateVersionIsNext ==
    \A c \in calls :
        c.op = "updateContent" =>
            /\ c.version = nodes[c.node].version + 1
            /\ c.version = c.remoteVersion + 1
            /\ IF nodes[c.node].file.dontChangeParentPageId
               THEN c.ancestors = ""
               ELSE c.ancestors = nodes[nodes[c.node].parent].file.pageId

tagSet(i) == {nodes[i].file.tags[k] : k \in DOMAIN nodes[i].file.tags}

\* the publish task of node i ends successful with this step, after its
\* body update and its label calls
completesLabels(i) ==
    /\ tasks[i].pc \in {"getLabelsForContent", "removeLabel", "addLabelsToContent"}
    /\ i \in DOMAIN tasks'
    /\ tasks'[i].pc = "done"
    /\ tasks'[i].successfulUpload

(* C18: when a page's body update and all its label calls have succeeded,  *)
(* the page's remote labels at the end of its publish task are exactly the *)
(* document's tags; only labels that are not tags were removed, and only   *)
(* tags that were not among the listed labels were added.                  *)
C18_LabelsEqualTags ==
    [][ \A i \in DOMAIN tasks :
            completesLabels(i) =>
                /\ pages'[nodes[i].file.pageId].labels = tagSet(i)
                /\ \A c \in calls' :
                      c.node = i =>
                          /\ c.op = "removeLabel" => c.name \notin tagSet(i)
                          /\ c.op = "addLabelsToContent" =>
                                \A k \in DOMAIN c.names :
                                    /\ c.names[k] \in tagSet(i)
                                    /\ c.names[k] \notin tasks'[i].currentLabels ]_vars

\* a page that had one label to drop, one to keep and gets one new
C18_Witness ==
    \E i \in DOMAIN tasks :
        /\ tasks[i].pc = "done" /\ tasks[i].successfulUpload
        /\ \E c \in calls : c.node = i /\ c.op = "removeLabel"
        /\ \E c \in calls : c.node = i /\ c.op = "addLabelsToContent"
        /\ tasks[i].currentLabels \cap tagSet(i) # {}
        /\ pages[nodes[i].file.pageId].labels = tagSet(i)

TaskOps ==
    PageWriteOps \cup {"captureMermaidCharts", "getAttachments", "readBinary",
                       "getLabelsForContent"}

isWikilink(node) ==
    /\ node.type = "text" /\ node.marks # <<>>
    /\ node.marks[1].type = "link" /\ node.marks[1].href.scheme = "wikilink"

\* where a node points to after the rewrite
linkTarget(node) ==
    IF node.type = "inlineCard" THEN node.attrs.url ELSE node.marks[1].href

\* the bindings whose document has the file name the link asks for
targetsOf(link) ==
    {n \in DOMAIN nodes :
        n > 1 /\ nodes[n].file.fileName = withMdSuffix(link.marks[1].href.pathname)}

remoteUrl(n, hash) ==
    [ scheme |-> "https", base |-> BaseUrl, spaceKey |-> nodes[n].file.spaceKey,
      pageId |-> nodes[n].file.pageId, hash |-> hash ]

\* node `now` is what link resolution makes of the document's node `orig`
resolved(orig, now) ==
    IF ~isWikilink(orig) THEN now = orig
    ELSE IF targetsOf(orig) # {}
    THEN /\ now.type \in {"text", "inlineCard"}
         /\ now.type = "text" => (now.text = orig.text /\ Len(now.marks) = 1)
         /\ \E n \in targetsOf(orig) :
               /\ nodes[n].file.pageId # NoPageId
               /\ linkTarget(now) = remoteUrl(n, orig.marks[1].href.hash)
    ELSE now = [type |-> "text", text |-> orig.text, marks |-> <<>>]

C20_BindingsHaveDistinctPages ==
    /\ run.status \in {"publishing", "returned"} =>
          \A j, k \in DOMAIN nodes :
              (j > 1 /\ k > 1 /\ j # k) => nodes[j].file.pageId # nodes[k].file.pageId
    /\ \A c, d \in calls :
          (c.op = "createContent" /\ d.op = "createContent" /\ c.node # d.node) =>
              nodes[c.node].file.pageTitle # nodes[d.node].file.pageTitle
    /\ \A c, d \in calls :
          (c.op = "updateContent" /\ d.op = "updateContent" /\ c.page = d.page) =>
              c.node = d.node

\* the nodes of the built tree that carry the m-th input document
attachedAt(m) ==
    LET files == treeFiles(folderTree.tree)
    IN  {k \in DOMAIN files :
            files[k].absoluteFilePath = markdownFiles[m].absoluteFilePath}

\* the bindings flattenTree yields for the m-th input document
bindingsOf(m) ==
    LET bindings == flattenTree(nodes)
    IN  {k \in DOMAIN bindings :
            bindings[k].file.absoluteFilePath = markdownFiles[m].absoluteFilePath}

(* C21: in every tree createFolderStructure returns, each input document   *)
(* is attached to exactly one node; and once the whole tree is reconciled, *)
(* flattenTree yields exactly one binding for each input document.         *)
C21_EveryDocumentOnceInTree ==
    /\ folderTree.state = "built" =>
          \A m \in DOMAIN markdownFiles : Cardinality(attachedAt(m)) = 1
    /\ (nodes # <<>> /\ \A j \in DOMAIN nodes : nodes[j].pc = "resolved") =>
          \A m \in DOMAIN markdownFiles : Cardinality(bindingsOf(m)) = 1

\* doPublish has returned its outcome or has thrown
settled == run.status \in {"returned", "failed"}

\* the positions at which a reconciliation call waits for a request's answer
NodeRequests == {"getContentById", "getContent", "createContent", "updateMarkdownPageId"}

\* with this step the call of node j sends a request
sendsRequest(j) ==
    /\ j \in DOMAIN nodes'
    /\ nodes'[j].pc # nodes[j].pc
    /\ nodes'[j].pc \in NodeRequests

(* C22: once doPublish has settled, by returning its outcome or by         *)
(* failing, no step of that run sends a further request: no publish task   *)
(* moves, and no reconciliation call goes on to fetch, search, create or   *)
(* persist a page id; in particular not a sibling of a call whose failure  *)
(* has been reported.                                                      *)
C22_NothingAfterSettling ==
    [][ (settled /\ run'.n = run.n) =>
            /\ tasks' = tasks
            /\ \A j \in DOMAIN nodes : ~sendsRequest(j) ]_vars

====
